---- MODULE Spec2Model ----
(***************************************************************************)
(* Model of the "if-you-bought" backtesting API.                           *)
(*                                                                         *)
(* The repository holds two revisions of the request handlers:            *)
(*   - "current": src/unnamed/part_001, the revision both test files      *)
(*     exercise (parseAmount with one argument, calculateDRIP, simulated   *)
(*     dividend schedule);                                                 *)
(*   - "legacy":  src/main.go, the earlier revision (parseAmount with the  *)
(*     hasOf flag, crypto and DRIP branches still stubs).                  *)
(* The variable `variant` fixes which revision is running.                 *)
(*                                                                         *)
(* One request is served at a time (handlers share no state).  A request   *)
(* walks through its handler one external call per step; the collaborators *)
(* (price source, FX source) answer nondeterministically.                  *)
(***************************************************************************)
EXTENDS Integers, Sequences, FiniteSets, TLC

(***************************************************************************)
(* Bounds of the model.                                                    *)
(***************************************************************************)
\* close prices the price source may answer: -1, 0 and 1..MaxPrice
MaxPrice == 2
\* FX rates the rate source may answer: k/2 for k in 1..MaxRateHalves
MaxRateHalves == 2

(***************************************************************************)
(* float64 arithmetic.  A value is a pair <<n, d>>: the rational n/d in    *)
(* lowest terms with d > 0, or, as IEEE-754 division by zero produces      *)
(* them, <<1,0>> = +Inf, <<-1,0>> = -Inf, <<0,0>> = NaN.  Rounding is not  *)
(* modelled.                                                               *)
(***************************************************************************)
Abs(x) == IF x < 0 THEN -x ELSE x

Sign(x) == IF x > 0 THEN 1 ELSE IF x < 0 THEN -1 ELSE 0

RECURSIVE Gcd(_, _)
Gcd(a, b) == IF b = 0 THEN a ELSE Gcd(b, a % b)

Norm(n, d) ==
    IF d = 0 THEN <<Sign(n), 0>>
    ELSE LET s == IF d < 0 THEN -1 ELSE 1
             g == Gcd(Abs(n), Abs(d))
         IN  <<(s * n) \div g, (s * d) \div g>>

F(n) == <<n, 1>>

IsFinite(x) == x[2] # 0

FMul(x, y) == Norm(x[1] * y[1], x[2] * y[2])

FDiv(x, y) == Norm(x[1] * y[2], x[2] * y[1])

FAdd(x, y) ==
    IF x[2] = 0 /\ y[2] = 0
    THEN (IF x[1] = y[1] THEN x ELSE <<0, 0>>)
    ELSE Norm(x[1] * y[2] + y[1] * x[2], x[2] * y[2])

\* x > y and x == 0 on float64 (every comparison with NaN is false)
FGt(x, y) ==
    /\ x # <<0, 0>>
    /\ y # <<0, 0>>
    /\ IF x[2] = 0 THEN x[1] = 1 /\ y # x
       ELSE IF y[2] = 0 THEN y[1] = -1
       ELSE x[1] * y[2] > y[1] * x[2]

FIsZero(x) == x[1] = 0 /\ x[2] # 0

FZero == F(0)

(***************************************************************************)
(* Amount tokens are sequences of one-character strings.                   *)
(***************************************************************************)
Digits == {"0", "1", "2", "3", "4", "5", "6", "7", "8", "9"}

UpperLetters == {"A", "B", "D", "E", "G", "P", "R", "S", "U"}

\* characters of Unicode category Sc used by the requests
CurrencySymbols == {"$", "EUROSIGN", "POUNDSIGN"}

DigitVal(c) ==
    CASE c = "0" -> 0 [] c = "1" -> 1 [] c = "2" -> 2 [] c = "3" -> 3
      [] c = "4" -> 4 [] c = "5" -> 5 [] c = "6" -> 6 [] c = "7" -> 7
      [] c = "8" -> 8 [] c = "9" -> 9

\* end (exclusive) of the maximal run of characters of class cls from i
RECURSIVE RunEnd(_, _, _)
RunEnd(s, i, cls) ==
    IF i <= Len(s) /\ s[i] \in cls THEN RunEnd(s, i + 1, cls) ELSE i

\* NumMatchEnd taking a comma for a decimal separator as well
NumMatchEndCommaDecimal(s, i) ==
    LET a  == IF i <= Len(s) /\ s[i] \in {"-", "+"} THEN i + 1 ELSE i
        b  == RunEnd(s, a, Digits)
        fr == IF b <= Len(s) /\ s[b] \in {".", ","} THEN RunEnd(s, b + 1, Digits) ELSE b
    IN  IF fr > b + 1 THEN fr
        ELSE IF b > a THEN b
        ELSE 0

\* regexp [-+]?[0-9]*\.?[0-9]+ anchored at i: index after the match, 0 if none
NumMatchEnd(s, i) ==
    LET a  == IF i <= Len(s) /\ s[i] \in {"-", "+"} THEN i + 1 ELSE i
        b  == RunEnd(s, a, Digits)
        fr == IF b <= Len(s) /\ s[b] = "." THEN RunEnd(s, b + 1, Digits) ELSE b
    IN  IF fr > b + 1 THEN fr
        ELSE IF b > a THEN b
        ELSE 0

\* numRegex.FindString: the leftmost match, <<>> if there is none
RECURSIVE NumFindFrom(_, _)
NumFindFrom(s, i) ==
    IF i > Len(s) THEN <<>>
    ELSE IF NumMatchEnd(s, i) # 0 THEN SubSeq(s, i, NumMatchEnd(s, i) - 1)
    ELSE NumFindFrom(s, i + 1)

NumFindString(s) == NumFindFrom(s, 1)

\* CurMatchEnd without the \p{Sc} alternative
CurMatchEndCodesOnly(s, i) ==
    IF i + 2 <= Len(s) /\ s[i] \in UpperLetters
       /\ s[i + 1] \in UpperLetters /\ s[i + 2] \in UpperLetters THEN i + 3
    ELSE 0

\* regexp ([\p{Sc}]|[A-Z]{3}) anchored at i
CurMatchEnd(s, i) ==
    IF i <= Len(s) /\ s[i] \in CurrencySymbols THEN i + 1
    ELSE IF i + 2 <= Len(s) /\ s[i] \in UpperLetters
            /\ s[i + 1] \in UpperLetters /\ s[i + 2] \in UpperLetters THEN i + 3
    ELSE 0

\* currencyRegex.FindString
RECURSIVE CurFindFrom(_, _)
CurFindFrom(s, i) ==
    IF i > Len(s) THEN <<>>
    ELSE IF CurMatchEnd(s, i) # 0 THEN SubSeq(s, i, CurMatchEnd(s, i) - 1)
    ELSE CurFindFrom(s, i + 1)

CurrencyFindString(s) == CurFindFrom(s, 1)

\* value of a run of decimal digits
RECURSIVE DigitsVal(_)
DigitsVal(ds) ==
    IF ds = <<>> THEN 0
    ELSE 10 * DigitsVal(SubSeq(ds, 1, Len(ds) - 1)) + DigitVal(ds[Len(ds)])

RECURSIVE Pow10(_)
Pow10(k) == IF k = 0 THEN 1 ELSE 10 * Pow10(k - 1)

\* strconv.ParseFloat on a string matched by numRegex
ParseFloat(m) ==
    LET neg  == m[1] = "-"
        a    == IF m[1] \in {"-", "+"} THEN 2 ELSE 1
        b    == RunEnd(m, a, Digits)
        ip   == DigitsVal(SubSeq(m, a, b - 1))
        fds  == IF b <= Len(m) THEN SubSeq(m, b + 1, Len(m)) ELSE <<>>
        mag  == Norm(ip * Pow10(Len(fds)) + DigitsVal(fds), Pow10(Len(fds)))
    IN  IF neg THEN <<-mag[1], mag[2]>> ELSE mag

\* parseAmount looking for the number only after the currency match
parseAmountNumberAfterCurrency(amount) ==
    LET currencyMatch == CurrencyFindString(amount)
        from          == IF currencyMatch = <<>> THEN 1
                         ELSE (CHOOSE i \in 1..Len(amount) : CurMatchEnd(amount, i) # 0
                                  /\ \A j \in 1..(i - 1) : CurMatchEnd(amount, j) = 0)
        numMatch      == NumFindFrom(amount, from)
    IN  IF numMatch = <<>>
        THEN [parsedAmount |-> FZero, currency |-> <<>>, isValue |-> FALSE,
              err |-> FALSE]
        ELSE [parsedAmount |-> ParseFloat(numMatch), currency |-> currencyMatch,
              isValue |-> currencyMatch # <<>>, err |-> FALSE]

\* parseAmount of the current revision: (parsedAmount, currency, isValue)
parseAmount(amount) ==
    LET currencyMatch == CurrencyFindString(amount)
        numMatch      == NumFindString(amount)
    IN  IF numMatch = <<>>
        THEN [parsedAmount |-> FZero, currency |-> <<>>, isValue |-> FALSE,
              err |-> FALSE]
        ELSE [parsedAmount |-> ParseFloat(numMatch), currency |-> currencyMatch,
              isValue |-> currencyMatch # <<>>, err |-> FALSE]

\* parseAmount of the legacy revision: (parsedAmount, isValue, currency, err)
parseAmountLegacy(amount, hasOf) ==
    LET currencyMatch == CurrencyFindString(amount)
        numMatch      == NumFindString(amount)
    IN  IF numMatch = <<>>
        THEN [parsedAmount |-> FZero, currency |-> <<>>, isValue |-> FALSE,
              err |-> TRUE]
        ELSE [parsedAmount |-> ParseFloat(numMatch), currency |-> currencyMatch,
              isValue |-> hasOf, err |-> FALSE]


(***************************************************************************)
(* Requests.                                                               *)
(***************************************************************************)
\* calendar dates are YYYYMMDD numbers; InvalidDate is a buyDate/sellDate
\* path segment that is not a date ("invalid-date")
InvalidDate == 0

RequestDates == {InvalidDate, 20250315, 20250401, 20250615}

Tickers == {"AAPL", "MSFT"}

TypeParams == {"stock", "crypto", "banana"}

Handlers == {"handleAmountBuy", "handleAmountBuySell", "handleAmountBuySellDrip"}

USD == <<"U", "S", "D">>

EUR == <<"E", "U", "R">>

\* the amount path segments the requests carry; a buy-only route has no
\* sellDate segment (InvalidDate stands for the empty parameter)
AmountTokens ==
    { <<"1", "0">>,                          \* 10
      <<"$", "5">> \o EUR,                   \* $5EUR
      <<"1", "0">> \o EUR,                   \* 10EUR
      EUR \o <<"4">>,                        \* EUR4
      <<"1", "0">> \o USD,                   \* 10USD
      <<"$", "1", "0">>,                     \* $10
      <<"2", ".", "5">>,                     \* 2.5
      <<"2", ",", "5">>,                     \* 2,5
      <<"0">>,                               \* 0
      <<"-", "5">>,                          \* -5
      <<"-", "5">> \o EUR,                   \* -5EUR
      <<"i", "n", "v", "a", "l", "i", "d">>, \* invalid
      EUR }                                  \* EUR

Requests ==
    { r \in [handler : Handlers, amount : AmountTokens, hasOf : BOOLEAN,
             typeParam : TypeParams, ticker : Tickers, buyDate : RequestDates,
             sellDate : RequestDates] :
        r.handler = "handleAmountBuy" => r.sellDate = InvalidDate }

NoRequest ==
    [handler |-> "none", amount |-> <<>>, hasOf |-> FALSE, typeParam |-> "stock",
     ticker |-> "AAPL", buyDate |-> InvalidDate, sellDate |-> InvalidDate]

(***************************************************************************)
(* Collaborators.  An answer is [ok, val, err]; a failed call returns the  *)
(* zero value and an error.                                                *)
(***************************************************************************)
Failure(e) == [ok |-> FALSE, val |-> FZero, err |-> e]

\* fetchStockDailyCloseAlphaVantage: the date's "4. close", or an error
\* (no time series, no data for the date)
fetchStockDailyCloseAlphaVantage(ticker, date) ==
    {Failure("No data for date")} \cup
    (IF date = InvalidDate THEN {}
     ELSE {[ok |-> TRUE, val |-> F(p), err |-> ""] : p \in {-1, 0} \cup (1..MaxPrice)})

\* getHistoricalFXRate: result.Rates[toCurrency], or an error
getHistoricalFXRate(fromCurrency, toCurrency, date) ==
    {Failure("No rates returned from Frankfurter")} \cup
    (IF date = InvalidDate THEN {}
     ELSE {[ok |-> TRUE, val |-> Norm(k, 2), err |-> ""] : k \in 1..MaxRateHalves})

dividendAmount == <<6, 25>>

dividendDates == <<20250315, 20250615, 20250915, 20251215>>

\* fetchStockDividendsAlphaVantage with the start of the range excluded
fetchStockDividendsAfterStart(ticker, startDate, endDate) ==
    IF startDate = InvalidDate \/ endDate = InvalidDate
    THEN [ok |-> FALSE, val |-> <<>>, err |-> "parsing time"]
    ELSE [ok |-> TRUE,
          val |-> IF ticker = "AAPL"
                  THEN SelectSeq([i \in 1..Len(dividendDates) |->
                                     [Date |-> dividendDates[i], Amount |-> dividendAmount]],
                                 LAMBDA d : d.Date > startDate /\ d.Date <= endDate)
                  ELSE <<>>,
          err |-> ""]

\* fetchStockDividendsAlphaVantage with the end of the range excluded
fetchStockDividendsBeforeEnd(ticker, startDate, endDate) ==
    IF startDate = InvalidDate \/ endDate = InvalidDate
    THEN [ok |-> FALSE, val |-> <<>>, err |-> "parsing time"]
    ELSE [ok |-> TRUE,
          val |-> IF ticker = "AAPL"
                  THEN SelectSeq([i \in 1..Len(dividendDates) |->
                                     [Date |-> dividendDates[i], Amount |-> dividendAmount]],
                                 LAMBDA d : d.Date >= startDate /\ d.Date < endDate)
                  ELSE <<>>,
          err |-> ""]

\* the simulated dividend schedule of the current revision
fetchStockDividendsAlphaVantage(ticker, startDate, endDate) ==
    IF startDate = InvalidDate \/ endDate = InvalidDate
    THEN [ok |-> FALSE, val |-> <<>>, err |-> "parsing time"]
    ELSE [ok |-> TRUE,
          val |-> IF ticker = "AAPL"
                  THEN SelectSeq([i \in 1..Len(dividendDates) |->
                                     [Date |-> dividendDates[i], Amount |-> dividendAmount]],
                                 LAMBDA d : d.Date >= startDate /\ d.Date <= endDate)
                  ELSE <<>>,
          err |-> ""]

\* calculateDRIP: <<totalReinvestedShares, reinvestedDividends>>
RECURSIVE calculateDRIPFrom(_, _, _, _, _, _)
calculateDRIPFrom(shares, dividends, stockPrice, i, total, log) ==
    IF i > Len(dividends) THEN <<total, log>>
    ELSE LET dividendPayment  == FMul(shares, dividends[i].Amount)
             additionalShares == FDiv(dividendPayment, stockPrice)
         IN  IF FGt(additionalShares, FZero)
             THEN calculateDRIPFrom(shares, dividends, stockPrice, i + 1,
                      FAdd(total, additionalShares),
                      Append(log, [Date |-> dividends[i].Date, Amount |-> dividendPayment]))
             ELSE calculateDRIPFrom(shares, dividends, stockPrice, i + 1, total, log)

\* calculateDRIP logging the latest reinvestment first
calculateDRIPNewestFirst(shares, dividends, stockPrice) ==
    LET r == calculateDRIPFrom(shares, dividends, stockPrice, 1, FZero, <<>>)
    IN  <<r[1], [k \in 1..Len(r[2]) |-> r[2][Len(r[2]) + 1 - k]]>>

\* calculateDRIP starting its total at the shares held
calculateDRIPCountingInitial(shares, dividends, stockPrice) ==
    calculateDRIPFrom(shares, dividends, stockPrice, 1, shares, <<>>)

calculateDRIP(shares, dividends, stockPrice) ==
    calculateDRIPFrom(shares, dividends, stockPrice, 1, FZero, <<>>)


(***************************************************************************)
(* State.                                                                  *)
(***************************************************************************)
VARIABLES
    variant,    \* which revision of the handlers is running
    pc,         \* position of the request in its handler
    req,        \* the request being served
    plan,       \* the external calls the handler still has ahead, then "respond"
    loc,        \* the handler's local variables
    fetches,    \* external calls issued for this request, in order, each with
                \* the call site (step) that issued it and its answer
    responses,  \* c.JSON calls made for this request, in order
    lastFailed  \* history: the request served before this one did not end in a
                \* success record (no handler reads it)

vars == <<variant, pc, req, plan, loc, fetches, responses, lastFailed>>

Variants == {"current", "legacy"}

LocInit ==
    [parsedAmount |-> FZero, currency |-> <<>>, isValue |-> FALSE,
     fxRateBuy |-> F(1), fxRateSell |-> F(1), buyPrice |-> FZero, sellPrice |-> FZero,
     dividends |-> <<>>, err1 |-> "", err2 |-> ""]

Init ==
    /\ variant \in Variants
    /\ pc = "idle"
    /\ req = NoRequest
    /\ plan = <<>>
    /\ loc = LocInit
    /\ fetches = <<>>
    /\ responses = <<>>
    /\ lastFailed = FALSE

(***************************************************************************)
(* Responses.  gin's c.JSON(status, body) marshals the body with           *)
(* encoding/json, which rejects +Inf, -Inf and NaN: then no body is        *)
(* written, and the status is 200 (gin records the error and aborts) or    *)
(* 500 (older gin panics into the Recovery middleware).                    *)
(***************************************************************************)
NumberFields ==
    {"value", "quantity", "closePrice", "shares", "fxRate", "buyPrice", "sellPrice",
     "finalValue", "finalValueUSD", "finalValueInStockCurrency",
     "finalValueInOriginalCurrency", "fxRateBuy", "fxRateSell", "initialShares",
     "reinvestedShares", "totalShares"}

Marshals(body) ==
    /\ \A f \in DOMAIN body \cap NumberFields : IsFinite(body[f])
    /\ "dividends" \in DOMAIN body =>
           \A i \in 1..Len(body.dividends) : IsFinite(body.dividends[i].Amount)

NoBody == [f \in {} |-> FZero]

JSON(status, body) ==
    IF Marshals(body) THEN {[status |-> status, body |-> body]}
    ELSE {[status |-> 200, body |-> NoBody], [status |-> 500, body |-> NoBody]}

StatusOK == 200

StatusBadRequest == 400

StatusInternalServerError == 500

InvalidAmount == [error |-> "Invalid amount format"]

InvalidType == [error |-> "Invalid type parameter: must be 'stock' or 'crypto'"]

UpstreamError(msg, details) == [error |-> msg, details |-> details]


(***************************************************************************)
(* The calls each handler makes once the request passed its entry checks.  *)
(***************************************************************************)
Foreign(currency) == currency # <<>> /\ currency # USD

\* handleAmountBuy asking for the FX rate in either mode
handleAmountBuyAlwaysFx(v, typeParam, isValue, currency) ==
    IF v = "current"
    THEN <<"fxBuy", "buyPrice", "respond">>
    ELSE IF typeParam = "stock" /\ isValue
         THEN <<"buyPrice">> \o (IF Foreign(currency) THEN <<"fxBuy">> ELSE <<>>)
              \o <<"respond">>
    ELSE IF typeParam = "stock" THEN <<"buyPrice", "respond">>
    ELSE <<"respond">>

handleAmountBuy(v, typeParam, isValue, currency) ==
    IF v = "current"
    THEN (IF isValue THEN <<"fxBuy", "buyPrice", "respond">>
          ELSE <<"buyPrice", "respond">>)
    ELSE IF typeParam = "stock" /\ isValue
         THEN <<"buyPrice">> \o (IF Foreign(currency) THEN <<"fxBuy">> ELSE <<>>)
              \o <<"respond">>
    ELSE IF typeParam = "stock" THEN <<"buyPrice", "respond">>
    ELSE <<"respond">>

handleAmountBuySell(v, typeParam, isValue, currency) ==
    IF v = "current"
    THEN (IF isValue THEN <<"fxBuy", "fxSell", "buyPrice", "sellPrice", "respond">>
          ELSE <<"buyPrice", "sellPrice", "respond">>)
    ELSE IF typeParam = "stock" /\ isValue
         THEN <<"buyPrice", "sellPrice">>
              \o (IF Foreign(currency) THEN <<"fxBuy", "fxSell">> ELSE <<>>)
              \o <<"respond">>
    ELSE IF typeParam = "stock" THEN <<"buyPrice", "sellPrice", "respond">>
    ELSE <<"respond">>

handleAmountBuySellDrip(v, typeParam, isValue, currency) ==
    IF v = "current"
    THEN (IF isValue
          THEN <<"fxBuy", "fxSell", "buyPrice", "sellPrice", "dividends", "respond">>
          ELSE <<"buyPrice", "sellPrice", "dividends", "respond">>)
    ELSE <<"respond">>

Calls(v, r, p) ==
    CASE r.handler = "handleAmountBuy" ->
             handleAmountBuy(v, r.typeParam, p.isValue, p.currency)
      [] r.handler = "handleAmountBuySell" ->
             handleAmountBuySell(v, r.typeParam, p.isValue, p.currency)
      [] r.handler = "handleAmountBuySellDrip" ->
             handleAmountBuySellDrip(v, r.typeParam, p.isValue, p.currency)

\* the entry checks: the 400 body the handler answers with, or <<>> to go on
EntryCheck(v, r, p) ==
    IF v = "current"
    THEN (IF r.handler = "handleAmountBuySellDrip" THEN <<>>
          ELSE IF FIsZero(p.parsedAmount) THEN <<InvalidAmount>>
          ELSE IF r.typeParam # "stock" /\ r.typeParam # "crypto" THEN <<InvalidType>>
          ELSE <<>>)
    ELSE (IF r.typeParam # "stock" /\ r.typeParam # "crypto" THEN <<InvalidType>>
          ELSE IF p.err THEN <<InvalidAmount>>
          ELSE <<>>)

ParseOf(v, r) ==
    IF v = "current" THEN parseAmount(r.amount)
    ELSE parseAmountLegacy(r.amount, r.hasOf)

\* the error text of a failed call
ErrorText(v, handler, step) ==
    IF handler = "handleAmountBuy" \/ v = "legacy"
    THEN (IF step \in {"fxBuy", "fxSell"} THEN "Failed to fetch FX rate"
          ELSE "Failed to fetch stock price")
    ELSE CASE step = "fxBuy"     -> "Failed to fetch FX rate for buy date"
           [] step = "fxSell"    -> "Failed to fetch FX rate for sell date"
           [] step = "buyPrice"  -> "Failed to fetch buy price"
           [] step = "sellPrice" -> "Failed to fetch sell price"
           [] step = "dividends" -> "Failed to fetch dividends"

\* the legacy buy/sell handler issues both calls of a pair before it looks
\* at either error
ChecksInPairs == variant = "legacy" /\ req.handler = "handleAmountBuySell"

Nil(e) == IF e = "" THEN "<nil>" ELSE e

(***************************************************************************)
(* Success bodies.                                                         *)
(***************************************************************************)
\* ValueBuyResult computing the shares from the unconverted amount
ValueBuyResultUnconverted(r, l) ==
    [message |-> "Backtest result (value buy only)", value |-> l.parsedAmount,
     currency |-> l.currency, ticker |-> r.ticker, buyDate |-> r.buyDate,
     closePrice |-> l.buyPrice, shares |-> FDiv(l.parsedAmount, l.buyPrice),
     stockCurrency |-> USD, fxRate |-> l.fxRateBuy, type |-> r.typeParam]

ValueBuyResult(r, l) ==
    [message |-> "Backtest result (value buy only)", value |-> l.parsedAmount,
     currency |-> l.currency, ticker |-> r.ticker, buyDate |-> r.buyDate,
     closePrice |-> l.buyPrice,
     shares |-> FDiv(FMul(l.parsedAmount, l.fxRateBuy), l.buyPrice),
     stockCurrency |-> USD, fxRate |-> l.fxRateBuy, type |-> r.typeParam]

QuantityBuyResult(r, l) ==
    [message |-> "Backtest result (quantity buy only)", quantity |-> l.parsedAmount,
     ticker |-> r.ticker, buyDate |-> r.buyDate, closePrice |-> l.buyPrice,
     type |-> r.typeParam]

\* ValueBuySellResult converting back with the reciprocal of the buy-date rate
ValueBuySellResultReciprocal(v, r, l) ==
    LET investmentUSD == FMul(l.parsedAmount, l.fxRateBuy)
        shares        == FDiv(investmentUSD, l.buyPrice)
        finalValueUSD == FMul(shares, l.sellPrice)
        finalValueInOriginalCurrency == FDiv(finalValueUSD, l.fxRateBuy)
        common ==
            [message |-> "Backtest result (value buy/sell)", value |-> l.parsedAmount,
             currency |-> l.currency, ticker |-> r.ticker, buyDate |-> r.buyDate,
             sellDate |-> r.sellDate, buyPrice |-> l.buyPrice,
             sellPrice |-> l.sellPrice, shares |-> shares, stockCurrency |-> USD,
             finalValueInOriginalCurrency |-> finalValueInOriginalCurrency,
             fxRateBuy |-> l.fxRateBuy, fxRateSell |-> l.fxRateSell,
             type |-> r.typeParam]
    IN  IF v = "current" THEN common @@ [finalValueUSD |-> finalValueUSD]
        ELSE common @@ [finalValueInStockCurrency |-> finalValueUSD]

ValueBuySellResult(v, r, l) ==
    LET investmentUSD == FMul(l.parsedAmount, l.fxRateBuy)
        shares        == FDiv(investmentUSD, l.buyPrice)
        finalValueUSD == FMul(shares, l.sellPrice)
        finalValueInOriginalCurrency == FMul(finalValueUSD, l.fxRateSell)
        common ==
            [message |-> "Backtest result (value buy/sell)", value |-> l.parsedAmount,
             currency |-> l.currency, ticker |-> r.ticker, buyDate |-> r.buyDate,
             sellDate |-> r.sellDate, buyPrice |-> l.buyPrice,
             sellPrice |-> l.sellPrice, shares |-> shares, stockCurrency |-> USD,
             finalValueInOriginalCurrency |-> finalValueInOriginalCurrency,
             fxRateBuy |-> l.fxRateBuy, fxRateSell |-> l.fxRateSell,
             type |-> r.typeParam]
    IN  IF v = "current" THEN common @@ [finalValueUSD |-> finalValueUSD]
        ELSE common @@ [finalValueInStockCurrency |-> finalValueUSD]

\* QuantityBuySellResult valuing the position at the buy price
QuantityBuySellResultAtBuyPrice(v, r, l) ==
    LET common ==
            [message |-> "Backtest result (quantity buy/sell)",
             quantity |-> l.parsedAmount, ticker |-> r.ticker, buyDate |-> r.buyDate,
             sellDate |-> r.sellDate, buyPrice |-> l.buyPrice,
             sellPrice |-> l.sellPrice, type |-> r.typeParam]
    IN  IF v = "current"
        THEN common @@ [finalValue |-> FMul(l.parsedAmount, l.buyPrice)]
        ELSE common

QuantityBuySellResult(v, r, l) ==
    LET common ==
            [message |-> "Backtest result (quantity buy/sell)",
             quantity |-> l.parsedAmount, ticker |-> r.ticker, buyDate |-> r.buyDate,
             sellDate |-> r.sellDate, buyPrice |-> l.buyPrice,
             sellPrice |-> l.sellPrice, type |-> r.typeParam]
    IN  IF v = "current"
        THEN common @@ [finalValue |-> FMul(l.parsedAmount, l.sellPrice)]
        ELSE common

ValueDripResult(r, l) ==
    LET investmentUSD == FMul(l.parsedAmount, l.fxRateBuy)
        initialShares == FDiv(investmentUSD, l.buyPrice)
        drip          == calculateDRIP(initialShares, l.dividends, l.buyPrice)
        totalShares   == FAdd(initialShares, drip[1])
        finalValueUSD == FMul(totalShares, l.sellPrice)
    IN  [message |-> "Backtest result (value buy/sell with DRIP)",
         value |-> l.parsedAmount, currency |-> l.currency, ticker |-> r.ticker,
         buyDate |-> r.buyDate, sellDate |-> r.sellDate, buyPrice |-> l.buyPrice,
         sellPrice |-> l.sellPrice, initialShares |-> initialShares,
         reinvestedShares |-> drip[1], totalShares |-> totalShares,
         dividends |-> drip[2], finalValueUSD |-> finalValueUSD,
         finalValueInOriginalCurrency |-> FMul(finalValueUSD, l.fxRateSell),
         fxRateBuy |-> l.fxRateBuy, fxRateSell |-> l.fxRateSell, drip |-> TRUE,
         type |-> r.typeParam]

\* QuantityDripResult reinvesting at the sell-date close price
QuantityDripResultAtSellPrice(r, l) ==
    LET drip        == calculateDRIP(l.parsedAmount, l.dividends, l.sellPrice)
        totalShares == FAdd(l.parsedAmount, drip[1])
    IN  [message |-> "Backtest result (quantity buy/sell with DRIP)",
         quantity |-> l.parsedAmount, ticker |-> r.ticker, buyDate |-> r.buyDate,
         sellDate |-> r.sellDate, buyPrice |-> l.buyPrice,
         sellPrice |-> l.sellPrice, reinvestedShares |-> drip[1],
         totalShares |-> totalShares, dividends |-> drip[2],
         finalValue |-> FMul(totalShares, l.sellPrice), drip |-> TRUE,
         type |-> r.typeParam]

QuantityDripResult(r, l) ==
    LET drip        == calculateDRIP(l.parsedAmount, l.dividends, l.buyPrice)
        totalShares == FAdd(l.parsedAmount, drip[1])
    IN  [message |-> "Backtest result (quantity buy/sell with DRIP)",
         quantity |-> l.parsedAmount, ticker |-> r.ticker, buyDate |-> r.buyDate,
         sellDate |-> r.sellDate, buyPrice |-> l.buyPrice,
         sellPrice |-> l.sellPrice, reinvestedShares |-> drip[1],
         totalShares |-> totalShares, dividends |-> drip[2],
         finalValue |-> FMul(totalShares, l.sellPrice), drip |-> TRUE,
         type |-> r.typeParam]

\* the legacy branches that compute nothing (crypto, and every DRIP request)
StubResult(r, l) ==
    LET base == [ticker |-> r.ticker, buyDate |-> r.buyDate, type |-> r.typeParam]
        vmsg == CASE r.handler = "handleAmountBuy" ->
                         "Backtest result (value buy only)"
                  [] r.handler = "handleAmountBuySell" ->
                         "Backtest result (value buy/sell)"
                  [] r.handler = "handleAmountBuySellDrip" ->
                         "Backtest result (value buy/sell with DRIP)"
        qmsg == CASE r.handler = "handleAmountBuy" ->
                         "Backtest result (quantity buy only)"
                  [] r.handler = "handleAmountBuySell" ->
                         "Backtest result (quantity buy/sell)"
                  [] r.handler = "handleAmountBuySellDrip" ->
                         "Backtest result (quantity buy/sell with DRIP)"
        amt  == IF l.isValue
                THEN [message |-> vmsg, value |-> l.parsedAmount,
                      currency |-> l.currency]
                ELSE [message |-> qmsg, quantity |-> l.parsedAmount]
        sell == IF r.handler = "handleAmountBuy" THEN NoBody
                ELSE [sellDate |-> r.sellDate]
        drip == IF r.handler = "handleAmountBuySellDrip" THEN [drip |-> TRUE]
                ELSE NoBody
    IN  base @@ amt @@ sell @@ drip

\* Computes with the stubs for crypto in either revision
ComputesStockOnly(v, r) ==
    r.typeParam = "stock" /\ (v = "current" \/ r.handler # "handleAmountBuySellDrip")

Computes(v, r) ==
    v = "current" \/ (r.typeParam = "stock" /\ r.handler # "handleAmountBuySellDrip")

Result(v, r, l) ==
    IF ~Computes(v, r) THEN StubResult(r, l)
    ELSE CASE r.handler = "handleAmountBuy" ->
                  IF l.isValue THEN ValueBuyResult(r, l) ELSE QuantityBuyResult(r, l)
           [] r.handler = "handleAmountBuySell" ->
                  IF l.isValue THEN ValueBuySellResult(v, r, l)
                  ELSE QuantityBuySellResult(v, r, l)
           [] r.handler = "handleAmountBuySellDrip" ->
                  IF l.isValue THEN ValueDripResult(r, l) ELSE QuantityDripResult(r, l)


(***************************************************************************)
(* Actions.                                                                *)
(***************************************************************************)
Goto ==
    /\ pc' = Head(plan)
    /\ plan' = Tail(plan)

Finish(status, body) ==
    /\ \E out \in JSON(status, body) : responses' = Append(responses, out)
    /\ pc' = "done"
    /\ plan' = <<>>

Issue(call, args, a) ==
    fetches' = Append(fetches, [step |-> pc, call |-> call, args |-> args,
                                ok |-> a.ok, val |-> a.val, err |-> a.err])

\* the router hands a request to its handler
Receive ==
    /\ pc = "idle"
    /\ \E r \in Requests : req' = r
    /\ pc' = "entry"
    /\ UNCHANGED <<variant, plan, loc, fetches, responses, lastFailed>>

\* the handler reads its parameters, parses the amount and checks its input
Entry ==
    /\ pc = "entry"
    /\ LET p == ParseOf(variant, req)
           rejected == EntryCheck(variant, req, p)
           calls == Calls(variant, req, p)
       IN  /\ loc' = [loc EXCEPT !.parsedAmount = p.parsedAmount,
                                 !.currency = p.currency, !.isValue = p.isValue]
           /\ IF rejected # <<>>
              THEN Finish(StatusBadRequest, rejected[1])
              ELSE /\ pc' = Head(calls)
                   /\ plan' = Tail(calls)
                   /\ UNCHANGED responses
    /\ UNCHANGED <<variant, req, fetches, lastFailed>>

\* AfterCall that never looks at the error
AfterCallUnchecked(step, a, paired, first) == Goto /\ UNCHANGED responses

\* AfterCall issuing the call again after the request's first failure
AfterCallRetrying(step, a, paired, first) ==
    IF ~a.ok /\ \A i \in 1..Len(fetches) : fetches[i].ok
    THEN pc' = pc /\ plan' = plan /\ UNCHANGED responses
    ELSE IF ~a.ok
         THEN Finish(StatusInternalServerError,
                     UpstreamError(ErrorText(variant, req.handler, step), <<a.err>>))
         ELSE Goto /\ UNCHANGED responses

\* AfterCall writing the error record without returning
AfterCallNoReturn(step, a, paired, first) ==
    IF ~a.ok
    THEN /\ responses' = Append(responses,
                [status |-> StatusInternalServerError,
                 body |-> UpstreamError(ErrorText(variant, req.handler, step), <<a.err>>)])
         /\ Goto
    ELSE Goto /\ UNCHANGED responses

\* after a call answered a: go on, or answer 500
AfterCall(step, a, paired, first) ==
    IF paired
    THEN IF first THEN Goto /\ UNCHANGED responses
         ELSE IF loc.err1 # "" \/ a.err # ""
              THEN Finish(StatusInternalServerError,
                          UpstreamError(ErrorText(variant, req.handler, step),
                                        <<"buy:", Nil(loc.err1), "sell:", Nil(a.err)>>))
              ELSE Goto /\ UNCHANGED responses
    ELSE IF ~a.ok
         THEN Finish(StatusInternalServerError,
                     UpstreamError(ErrorText(variant, req.handler, step), <<a.err>>))
         ELSE Goto /\ UNCHANGED responses

GetFXRateBuy ==
    /\ pc = "fxBuy"
    /\ \E a \in getHistoricalFXRate(loc.currency, USD, req.buyDate) :
         /\ Issue("getHistoricalFXRate", <<loc.currency, USD, req.buyDate>>, a)
         /\ loc' = [loc EXCEPT !.fxRateBuy = a.val, !.err1 = a.err]
         /\ AfterCall("fxBuy", a, ChecksInPairs, TRUE)
    /\ UNCHANGED <<variant, req, lastFailed>>

GetFXRateSell ==
    /\ pc = "fxSell"
    /\ \E a \in getHistoricalFXRate(USD, loc.currency, req.sellDate) :
         /\ Issue("getHistoricalFXRate", <<USD, loc.currency, req.sellDate>>, a)
         /\ loc' = [loc EXCEPT !.fxRateSell = a.val, !.err2 = a.err]
         /\ AfterCall("fxSell", a, ChecksInPairs, FALSE)
    /\ UNCHANGED <<variant, req, lastFailed>>

FetchBuyPrice ==
    /\ pc = "buyPrice"
    /\ \E a \in fetchStockDailyCloseAlphaVantage(req.ticker, req.buyDate) :
         /\ Issue("fetchStockDailyCloseAlphaVantage", <<req.ticker, req.buyDate>>, a)
         /\ loc' = [loc EXCEPT !.buyPrice = a.val, !.err1 = a.err]
         /\ AfterCall("buyPrice", a, ChecksInPairs, TRUE)
    /\ UNCHANGED <<variant, req, lastFailed>>

FetchSellPrice ==
    /\ pc = "sellPrice"
    /\ \E a \in fetchStockDailyCloseAlphaVantage(req.ticker, req.sellDate) :
         /\ Issue("fetchStockDailyCloseAlphaVantage", <<req.ticker, req.sellDate>>, a)
         /\ loc' = [loc EXCEPT !.sellPrice = a.val, !.err2 = a.err]
         /\ AfterCall("sellPrice", a, ChecksInPairs, FALSE)
    /\ UNCHANGED <<variant, req, lastFailed>>

FetchDividends ==
    /\ pc = "dividends"
    /\ LET a == fetchStockDividendsAlphaVantage(req.ticker, req.buyDate, req.sellDate)
       IN  /\ Issue("fetchStockDividendsAlphaVantage",
                    <<req.ticker, req.buyDate, req.sellDate>>, a)
           /\ loc' = [loc EXCEPT !.dividends = a.val]
           /\ AfterCall("dividends", a, FALSE, FALSE)
    /\ UNCHANGED <<variant, req, lastFailed>>

\* every call succeeded: compute and write the result
Respond ==
    /\ pc = "respond"
    /\ Finish(StatusOK, Result(variant, req, loc))
    /\ UNCHANGED <<variant, req, loc, fetches, lastFailed>>

\* Return with the handler's variables kept for the next request
ReturnKeepingLocals ==
    /\ pc = "done"
    /\ pc' = "idle"
    /\ req' = NoRequest
    /\ plan' = <<>>
    /\ loc' = loc
    /\ fetches' = <<>>
    /\ responses' = <<>>
    /\ lastFailed' = ("message" \notin DOMAIN responses[1].body)
    /\ UNCHANGED variant

\* the handler returns: its locals and the request's context are gone
Return ==
    /\ pc = "done"
    /\ pc' = "idle"
    /\ req' = NoRequest
    /\ plan' = <<>>
    /\ loc' = LocInit
    /\ fetches' = <<>>
    /\ responses' = <<>>
    /\ lastFailed' = ("message" \notin DOMAIN responses[1].body)
    /\ UNCHANGED variant

Next ==
    \/ Receive
    \/ Entry
    \/ GetFXRateBuy
    \/ GetFXRateSell
    \/ FetchBuyPrice
    \/ FetchSellPrice
    \/ FetchDividends
    \/ Respond
    \/ Return

Spec == Init /\ [][Next]_vars

TypeOK ==
    /\ variant \in Variants
    /\ pc \in {"idle", "entry", "fxBuy", "fxSell", "buyPrice", "sellPrice",
               "dividends", "respond", "done"}
    /\ Len(responses) <= 1


(***************************************************************************)
(* Vocabulary of the properties.                                           *)
(***************************************************************************)
Answered == Len(responses) >= 1

Reply == responses[1]

IsSuccess(r) == r.status = StatusOK /\ "message" \in DOMAIN r.body

IsErrorRecord(r) == "error" \in DOMAIN r.body

FxCall == "getHistoricalFXRate"

PriceCall == "fetchStockDailyCloseAlphaVantage"

DividendCall == "fetchStockDividendsAlphaVantage"

CallsOf(name) == {i \in 1..Len(fetches) : fetches[i].call = name}

ValidType == req.typeParam \in {"stock", "crypto"}

IsDrip == req.handler = "handleAmountBuySellDrip"

(***************************************************************************)
(* C1.  The DRIP simulation is compounding: with initial shares > 0 and a  *)
(* reinvestment price > 0, of two consecutive dividend events with the     *)
(* same positive per-share amount the second is logged with strictly more  *)
(* cash than the first.  (Every event of the schedule pays dividendAmount, *)
(* and with positive shares and price every event is logged.)              *)
(***************************************************************************)
C1_DripCompounds ==
    (/\ variant = "current" /\ IsDrip /\ Answered /\ IsSuccess(Reply)
     /\ FGt(loc.buyPrice, FZero)
     /\ FGt(FMul(loc.parsedAmount, loc.fxRateBuy), FZero))
    => \A i \in 1..(Len(Reply.body.dividends) - 1) :
           FGt(Reply.body.dividends[i + 1].Amount, Reply.body.dividends[i].Amount)

(***************************************************************************)
(* C2.  A request whose type is neither 'stock' nor 'crypto' issues no     *)
(* external call at any point and ends in the 400 InvalidType rejection.   *)
(***************************************************************************)
C2_InvalidTypeNoFetch ==
    (variant = "current" /\ req.handler \in Handlers /\ ~ValidType)
    => /\ fetches = <<>>
       /\ Answered => Reply.status = StatusBadRequest /\ IsErrorRecord(Reply)

(***************************************************************************)
(* C3.  A request whose amount token holds no numeric substring issues no  *)
(* external call at any point and ends in the 400 InvalidAmount rejection. *)
(* (Stated for requests whose type is valid, so that the amount is the     *)
(* only defect.)                                                           *)
(***************************************************************************)
HasDigit(s) == \E i \in 1..Len(s) : s[i] \in Digits

C3_MalformedAmountNoFetch ==
    (variant = "current" /\ req.handler \in Handlers /\ ValidType
     /\ ~HasDigit(req.amount))
    => /\ fetches = <<>>
       /\ Answered => Reply = [status |-> StatusBadRequest, body |-> InvalidAmount]

(***************************************************************************)
(* C4.  No success result carries a zero or negative quantity or value.    *)
(***************************************************************************)
C4_NoNonPositiveAmount ==
    (variant = "current" /\ Answered /\ IsSuccess(Reply))
    => /\ "quantity" \in DOMAIN Reply.body => FGt(Reply.body.quantity, FZero)
       /\ "value" \in DOMAIN Reply.body => FGt(Reply.body.value, FZero)

(***************************************************************************)
(* C5.  If any external call of the request failed, the response is the    *)
(* 500 error record carrying the failed call's error text and nothing      *)
(* else; a success record is written only when every call succeeded.       *)
(***************************************************************************)
SomeCallFailed == \E i \in 1..Len(fetches) : ~fetches[i].ok

C5_FailedFetchAborts ==
    Answered =>
       /\ SomeCallFailed =>
             /\ Reply.status = StatusInternalServerError
             /\ DOMAIN Reply.body = {"error", "details"}
             /\ \E i \in 1..Len(fetches) :
                   /\ ~fetches[i].ok
                   /\ \E j \in 1..Len(Reply.body.details) :
                         Reply.body.details[j] = fetches[i].err
       /\ IsSuccess(Reply) => ~SomeCallFailed

C5_Witness ==
    /\ Answered
    /\ SomeCallFailed
    /\ \E i \in 1..Len(fetches) : fetches[i].ok
    /\ Reply.status = StatusInternalServerError


(***************************************************************************)
(* parseAmount as a pure function: every string over ParseAlphabet of at   *)
(* most MaxTokenLen characters is parsed by each revision.                 *)
(***************************************************************************)
MaxTokenLen == 4

ParseAlphabet == {"1", "0", ".", "-", "E", "$", ","}

ParseInputs == UNION {[1..k -> ParseAlphabet] : k \in 0..MaxTokenLen}

ParseInit ==
    /\ variant \in Variants
    /\ pc = "idle"
    /\ \E a \in ParseInputs, o \in BOOLEAN :
          req = [NoRequest EXCEPT !.amount = a, !.hasOf = o]
    /\ plan = <<>>
    /\ loc = LocInit
    /\ fetches = <<>>
    /\ responses = <<>>
    /\ lastFailed = FALSE

Parse ==
    /\ pc = "idle"
    /\ pc' = "parsed"
    /\ LET p == ParseOf(variant, req)
       IN  loc' = [loc EXCEPT !.parsedAmount = p.parsedAmount,
                              !.currency = p.currency, !.isValue = p.isValue,
                              !.err1 = IF p.err THEN "No numeric value found in amount"
                                       ELSE ""]
    /\ UNCHANGED <<variant, req, plan, fetches, responses, lastFailed>>

ParseNext == Parse

ParseSpec == ParseInit /\ [][ParseNext]_vars

\* where a currency indicator starts: a currency symbol, or three uppercase
\* letters in a row
IndicatorStarts(s) ==
    {i \in 1..Len(s) :
        \/ s[i] \in CurrencySymbols
        \/ i + 2 <= Len(s) /\ \A k \in 0..2 : s[i + k] \in UpperLetters}

HasIndicator(s) == IndicatorStarts(s) # {}

FirstIndicator(s) ==
    LET i == CHOOSE i \in IndicatorStarts(s) : \A j \in IndicatorStarts(s) : i <= j
    IN  IF s[i] \in CurrencySymbols THEN <<s[i]>> ELSE <<s[i], s[i + 1], s[i + 2]>>

BareNumber(s) == HasDigit(s) /\ ~HasIndicator(s)

C7_CurrencyAuthoritative ==
    (/\ req.handler \in Handlers /\ req.typeParam = "stock"
     /\ Answered /\ IsSuccess(Reply) /\ FGt(loc.parsedAmount, FZero)) =>
        /\ (HasDigit(req.amount) /\ HasIndicator(req.amount)) =>
              "value" \in DOMAIN Reply.body
        /\ (BareNumber(req.amount) /\ req.hasOf) =>
              /\ "value" \in DOMAIN Reply.body
              /\ req.handler = "handleAmountBuy" => "shares" \in DOMAIN Reply.body
              /\ CallsOf(FxCall) = {}
        /\ (BareNumber(req.amount) /\ ~req.hasOf) =>
              "quantity" \in DOMAIN Reply.body

(***************************************************************************)
(* C8.  A value-mode amount in the asset's own currency (USD) never        *)
(* consults the FX source, and its rates are exactly 1.0.                  *)
(***************************************************************************)
C8_SameCurrencyNoFxCall ==
    (req.handler \in Handlers /\ pc # "entry" /\ loc.isValue /\ loc.currency = USD) =>
        /\ CallsOf(FxCall) = {}
        /\ (Answered /\ IsSuccess(Reply)) =>
              \A f \in {"fxRate", "fxRateBuy", "fxRateSell"} \cap DOMAIN Reply.body :
                  Reply.body[f] = F(1)

(***************************************************************************)
(* C9.  A value-mode request whose buy-date close price came back <= 0     *)
(* ends in an upstream error; no share count is derived from that price.   *)
(* (Stated for requests with a positive amount.)                           *)
(***************************************************************************)
BuyPriceAnswers ==
    {i \in CallsOf(PriceCall) : fetches[i].args = <<req.ticker, req.buyDate>>}

C9_NonPositivePriceFails ==
    (/\ req.handler \in Handlers /\ Answered /\ loc.isValue
     /\ FGt(loc.parsedAmount, FZero)
     /\ \E i \in BuyPriceAnswers :
           /\ fetches[i].ok /\ ~FGt(fetches[i].val, FZero)
           /\ \A j \in BuyPriceAnswers : i <= j)
    => Reply.status = StatusInternalServerError /\ IsErrorRecord(Reply)

(***************************************************************************)
(* C10.  A successful value-mode buy-only request of the current revision  *)
(* asks the FX source for currency -> USD on the buy date, then the price  *)
(* source for the buy date, and answers shares = value * fxRate /          *)
(* closePrice together with value, currency, fxRate, stockCurrency and     *)
(* closePrice.                                                             *)
(***************************************************************************)
C10_ValueBuyShares ==
    (/\ variant = "current" /\ req.handler = "handleAmountBuy"
     /\ Answered /\ IsSuccess(Reply) /\ HasIndicator(req.amount))
    => /\ {"value", "currency", "fxRate", "shares", "stockCurrency", "closePrice"}
              \subseteq DOMAIN Reply.body
       /\ Len(fetches) = 2
       /\ fetches[1].call = FxCall
       /\ fetches[1].args = <<FirstIndicator(req.amount), USD, req.buyDate>>
       /\ fetches[2].call = PriceCall
       /\ fetches[2].args = <<req.ticker, req.buyDate>>
       /\ Reply.body.currency = FirstIndicator(req.amount)
       /\ Reply.body.stockCurrency = USD
       /\ Reply.body.fxRate = fetches[1].val
       /\ Reply.body.closePrice = fetches[2].val
       /\ FMul(Reply.body.shares, fetches[2].val) = FMul(Reply.body.value, fetches[1].val)

C10_Witness ==
    /\ variant = "current" /\ req.handler = "handleAmountBuy"
    /\ Answered /\ IsSuccess(Reply)
    /\ req.amount = <<"1", "0">> \o EUR
    /\ Reply.body.value = F(10)
    /\ Reply.body.fxRate = <<1, 2>>
    /\ Reply.body.closePrice = F(2)
    /\ Reply.body.shares = <<5, 2>>

StepsOf(step) == {i \in 1..Len(fetches) : fetches[i].step = step}

C12_ValueBuySellRoundTrip ==
    (/\ req.handler = "handleAmountBuySell"
     /\ variant = "current" \/ req.typeParam = "stock"
     /\ Answered /\ IsSuccess(Reply)
     /\ "value" \in DOMAIN Reply.body
     /\ HasIndicator(req.amount) /\ FirstIndicator(req.amount) # USD)
    => LET C == FirstIndicator(req.amount)
           buys  == {i \in CallsOf(FxCall) : fetches[i].args = <<C, USD, req.buyDate>>}
           sells == {i \in CallsOf(FxCall) : fetches[i].args = <<USD, C, req.sellDate>>}
       IN  /\ Cardinality(buys) = 1 /\ Cardinality(sells) = 1
           /\ CallsOf(FxCall) = buys \cup sells
           /\ Cardinality(StepsOf("buyPrice")) = 1
           /\ Cardinality(StepsOf("sellPrice")) = 1
           /\ \A i \in buys, j \in sells, b \in StepsOf("buyPrice"),
                 s \in StepsOf("sellPrice") :
                 /\ i < j
                 /\ Reply.body.fxRateBuy = fetches[i].val
                 /\ Reply.body.fxRateSell = fetches[j].val
                 /\ FMul(Reply.body.finalValueInOriginalCurrency, fetches[b].val)
                      = FMul(FMul(FMul(Reply.body.value, fetches[i].val),
                                  fetches[s].val), fetches[j].val)

C12_Witness ==
    /\ variant = "current" /\ req.handler = "handleAmountBuySell"
    /\ Answered /\ IsSuccess(Reply)
    /\ req.amount = <<"1", "0">> \o EUR
    /\ req.buyDate = 20250315 /\ req.sellDate = 20250615
    /\ Reply.body.fxRateBuy = <<1, 2>>
    /\ Reply.body.fxRateSell = F(1)
    /\ Reply.body.buyPrice = F(1)
    /\ Reply.body.sellPrice = F(2)
    /\ Reply.body.finalValueInOriginalCurrency = F(10)

(***************************************************************************)
(* C13.  A successful buy/sell+DRIP request of the current revision ran    *)
(* the DRIP over the schedule the dividend source answered for (ticker,    *)
(* buyDate, sellDate), reinvesting every logged payment at the buy-date    *)
(* close price: reinvestedShares * buyPrice = the logged cash, every       *)
(* logged entry is an event of the schedule paid on the initial shares,    *)
(* and with positive shares and price every event is logged.  totalShares  *)
(* = initial + reinvested; the final value is totalShares * sellPrice,     *)
(* times the sell-date rate in value mode.  The result carries             *)
(* reinvestedShares, totalShares and dividends, and initialShares in value *)
(* mode.                                                                   *)
(***************************************************************************)
RECURSIVE SumCash(_)
SumCash(log) ==
    IF log = <<>> THEN FZero ELSE FAdd(log[1].Amount, SumCash(Tail(log)))

C14_AsClaimed ==
    (/\ variant = "current" /\ IsDrip /\ Answered /\ IsSuccess(Reply)
     /\ req.buyDate = req.sellDate)
    => /\ FIsZero(Reply.body.reinvestedShares)
       /\ Reply.body.dividends = <<>>

(***************************************************************************)
(* C14 as amended: when buyDate equals sellDate the window is that single  *)
(* day.  The schedule holds exactly the ticker's dividend events whose     *)
(* ex-date is that date.  With none, no event is applied, reinvestedShares *)
(* is 0 and the log is empty; an event whose ex-date equals the date is in *)
(* the schedule and, with positive shares and price, it is reinvested and  *)
(* logged.                                                                 *)
(***************************************************************************)
ExDates(ticker) ==
    IF ticker = "AAPL" THEN {dividendDates[i] : i \in 1..Len(dividendDates)} ELSE {}

C14_SingleDayWindow ==
    (variant = "current" /\ IsDrip /\ req.buyDate = req.sellDate)
    => \A d \in CallsOf(DividendCall) :
          /\ fetches[d].ok
          /\ \A e \in 1..Len(fetches[d].val) : fetches[d].val[e].Date = req.buyDate
          /\ Len(fetches[d].val) = IF req.buyDate \in ExDates(req.ticker) THEN 1 ELSE 0
          /\ (Answered /\ IsSuccess(Reply)) =>
                LET body    == Reply.body
                    initial == IF "value" \in DOMAIN body THEN body.initialShares
                               ELSE body.quantity
                IN  /\ fetches[d].val = <<>> =>
                          FIsZero(body.reinvestedShares) /\ body.dividends = <<>>
                    /\ (/\ fetches[d].val # <<>>
                        /\ FGt(initial, FZero) /\ FGt(body.buyPrice, FZero)) =>
                          /\ FGt(body.reinvestedShares, FZero)
                          /\ Len(body.dividends) = 1
                          /\ body.dividends[1].Date = req.buyDate

C14_Witness ==
    /\ variant = "current" /\ IsDrip /\ Answered /\ IsSuccess(Reply)
    /\ req.ticker = "AAPL" /\ req.amount = <<"1", "0">>
    /\ req.buyDate = 20250315 /\ req.sellDate = 20250315
    /\ Reply.body.buyPrice = F(1)
    /\ Reply.body.reinvestedShares = <<12, 5>>
    /\ Len(Reply.body.dividends) = 1

(***************************************************************************)
(* C15.  The dividend schedule handed to the DRIP simulation holds exactly *)
(* the ticker's dividend events whose ex-date d satisfies buyDate <= d <=  *)
(* sellDate, each once and in date order, and none outside that range;     *)
(* when buyDate > sellDate it is empty.                                    *)
(***************************************************************************)
C15_InclusiveWindow ==
    (variant = "current" /\ IsDrip)
    => \A d \in CallsOf(DividendCall) :
          LET schedule == fetches[d].val
          IN  /\ fetches[d].ok
              /\ loc.dividends = schedule
              /\ {schedule[e].Date : e \in 1..Len(schedule)}
                    = {x \in ExDates(req.ticker) :
                          req.buyDate <= x /\ x <= req.sellDate}
              /\ \A e \in 1..Len(schedule) : schedule[e].Amount = dividendAmount
              /\ \A e \in 1..(Len(schedule) - 1) :
                    schedule[e].Date < schedule[e + 1].Date
              /\ req.buyDate > req.sellDate => schedule = <<>>

C15_Witness ==
    /\ variant = "current" /\ IsDrip /\ pc = "respond"
    /\ req.ticker = "AAPL"
    /\ req.buyDate = 20250315 /\ req.sellDate = 20250615
    /\ Len(loc.dividends) = 2
    /\ loc.dividends[1].Date = 20250315
    /\ loc.dividends[2].Date = 20250615

(***************************************************************************)
(* C16.  In every success response whose price and rate answers were all   *)
(* positive, no share count (quantity, shares, initialShares,              *)
(* reinvestedShares, totalShares) and no logged dividend cash is negative. *)
(***************************************************************************)
ShareFields == {"quantity", "shares", "initialShares", "reinvestedShares", "totalShares"}

C16_NoNegativeSharesOrCash ==
    (/\ variant = "current" /\ Answered /\ IsSuccess(Reply)
     /\ \A i \in CallsOf(PriceCall) \cup CallsOf(FxCall) : FGt(fetches[i].val, FZero))
    => /\ \A f \in ShareFields \cap DOMAIN Reply.body : ~FGt(FZero, Reply.body[f])
       /\ "dividends" \in DOMAIN Reply.body =>
             \A k \in 1..Len(Reply.body.dividends) :
                 ~FGt(FZero, Reply.body.dividends[k].Amount)

(***************************************************************************)
(* C17.  Every success result carries the request's ticker and buyDate     *)
(* and a type that is 'stock' or 'crypto'.                                 *)
(***************************************************************************)
C17_ResultEchoesRequest ==
    (Answered /\ IsSuccess(Reply))
    => /\ {"ticker", "buyDate", "type"} \subseteq DOMAIN Reply.body
       /\ Reply.body.ticker = req.ticker
       /\ Reply.body.buyDate = req.buyDate
       /\ Reply.body.type \in {"stock", "crypto"}

(***************************************************************************)
(* C18.  No retries and fail-stop.                                         *)
(* As claimed: within one request no call site issues its call twice, once *)
(* a call has failed no further call is issued, and the request ends with  *)
(* the error.                                                              *)
(***************************************************************************)
NoCallTwice ==
    \A i, j \in 1..Len(fetches) : fetches[i].step = fetches[j].step => i = j

EndsWithError ==
    (Answered /\ SomeCallFailed) =>
        Reply.status = StatusInternalServerError /\ IsErrorRecord(Reply)

C18_AsClaimed ==
    /\ NoCallTwice
    /\ \A i \in 1..Len(fetches) : ~fetches[i].ok => i = Len(fetches)
    /\ EndsWithError

(***************************************************************************)
(* C18 as amended: no call site issues its call twice, a failed call is    *)
(* never re-issued, and the request ends with the error.  Once a call has  *)
(* failed the handler answers at once and issues no further call, except   *)
(* in the legacy buy/sell handler, which issues the two calls of a pair    *)
(* (buy and sell price, then buy and sell rate) before it looks at either  *)
(* error: after a failed buy-side call it still issues the sell-side call  *)
(* of that pair, and nothing after it.                                     *)
(***************************************************************************)
PairedWith(step) ==
    CASE step = "buyPrice" -> "sellPrice"
      [] step = "fxBuy"    -> "fxSell"
      [] OTHER             -> "none"

C18_NoRetryFailStop ==
    /\ NoCallTwice
    /\ EndsWithError
    /\ \A i \in 1..Len(fetches) :
          ~fetches[i].ok =>
             \/ i = Len(fetches) /\ (Answered \/ pc = PairedWith(fetches[i].step))
             \/ i + 1 = Len(fetches) /\ Answered
                  /\ fetches[i + 1].step = PairedWith(fetches[i].step)
    /\ (\E i \in 1..Len(fetches) : ~fetches[i].ok /\ (i < Len(fetches) \/ ~Answered))
          => variant = "legacy" /\ req.handler = "handleAmountBuySell"

C18_Witness ==
    /\ variant = "legacy" /\ req.handler = "handleAmountBuySell"
    /\ Answered /\ Reply.status = StatusInternalServerError
    /\ Len(fetches) = 2
    /\ fetches[1].step = "buyPrice" /\ ~fetches[1].ok
    /\ fetches[2].step = "sellPrice" /\ fetches[2].ok

(***************************************************************************)
(* C19.  Requests are independent and stateless: the response to a request *)
(* is determined by the request's parameters and the collaborators'        *)
(* answers to its own fetches, whatever was served before it, and a        *)
(* request, failed or not, leaves nothing behind for the next one.         *)
(***************************************************************************)
AnswerAt(log, step, default) ==
    IF \E i \in 1..Len(log) : log[i].step = step
    THEN log[CHOOSE i \in 1..Len(log) : log[i].step = step].val
    ELSE default

\* the responses a request with these parameters and these answers can get
ExpectedReplies(v, r, log) ==
    LET p        == ParseOf(v, r)
        rejected == EntryCheck(v, r, p)
        failed   == {i \in 1..Len(log) : ~log[i].ok}
        locals   == [parsedAmount |-> p.parsedAmount, currency |-> p.currency,
                     isValue |-> p.isValue,
                     fxRateBuy |-> AnswerAt(log, "fxBuy", F(1)),
                     fxRateSell |-> AnswerAt(log, "fxSell", F(1)),
                     buyPrice |-> AnswerAt(log, "buyPrice", FZero),
                     sellPrice |-> AnswerAt(log, "sellPrice", FZero),
                     dividends |-> AnswerAt(log, "dividends", <<>>)]
    IN  IF rejected # <<>> THEN JSON(StatusBadRequest, rejected[1])
        ELSE IF failed = {} THEN JSON(StatusOK, Result(v, r, locals))
        ELSE IF v = "legacy" /\ r.handler = "handleAmountBuySell"
        THEN {[status |-> StatusInternalServerError,
               body |-> UpstreamError(ErrorText(v, r.handler, log[Len(log)].step),
                                      <<"buy:", Nil(log[Len(log) - 1].err),
                                        "sell:", Nil(log[Len(log)].err)>>)]}
        ELSE LET i == CHOOSE i \in failed : \A j \in failed : i <= j
             IN  {[status |-> StatusInternalServerError,
                   body |-> UpstreamError(ErrorText(v, r.handler, log[i].step),
                                          <<log[i].err>>)]}

C19_Stateless ==
    /\ pc = "idle" =>
          /\ req = NoRequest /\ plan = <<>> /\ loc = LocInit
          /\ fetches = <<>> /\ responses = <<>>
    /\ Answered => Reply \in ExpectedReplies(variant, req, fetches)

C19_Witness ==
    /\ lastFailed
    /\ variant = "current" /\ req.handler = "handleAmountBuy"
    /\ req.amount = <<"1", "0">> \o EUR
    /\ Answered /\ IsSuccess(Reply)
    /\ Len(fetches) = 2
    /\ Reply.body.fxRate = <<1, 2>>
    /\ Reply.body.closePrice = F(1)
    /\ Reply.body.shares = F(5)

(***************************************************************************)
(* C20.  Every error response, for a client-input error as well as for an  *)
(* upstream failure, is a record with both an 'error' and a 'details'      *)
(* field.                                                                  *)
(***************************************************************************)
C20_ErrorRecordHasDetails ==
    (Answered /\ IsErrorRecord(Reply))
    => /\ Reply.status \in {StatusBadRequest, StatusInternalServerError}
       /\ "details" \in DOMAIN Reply.body

(***************************************************************************)
(* C21.  Every success response of every endpoint contains message,        *)
(* ticker, buyDate, type, currentValue, totalReturn and percentageReturn,  *)
(* and sellDate when a sell date was given.                                *)
(***************************************************************************)
C21_ConsistentFormat ==
    (Answered /\ IsSuccess(Reply))
    => /\ {"message", "ticker", "buyDate", "type", "currentValue", "totalReturn",
           "percentageReturn"} \subseteq DOMAIN Reply.body
       /\ req.handler # "handleAmountBuy" => "sellDate" \in DOMAIN Reply.body

(***************************************************************************)
(* C22.  A quantity-mode request of any shape never consults the FX source,*)
(* and a successful quantity-mode buy-only request (wherever the handler   *)
(* computes: the current revision, and stock in the legacy one) fetched    *)
(* the buy-date close price once and returns the parsed quantity and that  *)
(* price, with no currency, fxRate or shares field.                        *)
(***************************************************************************)
QuantityMode ==
    IF variant = "current" THEN ~(HasDigit(req.amount) /\ HasIndicator(req.amount))
    ELSE ~req.hasOf

EmptySchedule ==
    \E d \in CallsOf(DividendCall) : fetches[d].ok /\ fetches[d].val = <<>>

C23_EmptyScheduleNoReinvestment ==
    /\ \A s \in {loc.parsedAmount, FDiv(FMul(loc.parsedAmount, loc.fxRateBuy), loc.buyPrice)} :
          calculateDRIP(s, <<>>, loc.buyPrice) = <<FZero, <<>>>>
    /\ (variant = "current" /\ IsDrip /\ Answered /\ EmptySchedule) =>
          /\ ~IsErrorRecord(Reply)
          /\ (QuantityMode \/ ~FIsZero(AnswerAt(fetches, "buyPrice", FZero))) =>
                IsSuccess(Reply)
          /\ IsSuccess(Reply) =>
                /\ FIsZero(Reply.body.reinvestedShares)
                /\ Reply.body.dividends = <<>>
                /\ Reply.body.totalShares =
                      (IF "value" \in DOMAIN Reply.body THEN Reply.body.initialShares
                       ELSE Reply.body.quantity)

C23_Witness ==
    /\ variant = "current" /\ IsDrip /\ Answered /\ IsSuccess(Reply)
    /\ EmptySchedule
    /\ req.ticker = "MSFT" /\ req.amount = <<"1", "0">> \o EUR
    /\ req.buyDate = 20250315 /\ req.sellDate = 20250615
    /\ Reply.body.initialShares = F(5)
    /\ Reply.body.reinvestedShares = FZero
    /\ Reply.body.totalShares = F(5)
    /\ Reply.body.dividends = <<>>

(***************************************************************************)
(* C24.  In the DRIP simulation an event of the schedule is logged (and    *)
(* its shares reinvested) if and only if its computed cash, shares held *  *)
(* per-share amount, is strictly positive; every logged cash amount is     *)
(* > 0.                                                                    *)
(***************************************************************************)
C24_LoggedIffPositiveCash ==
    (variant = "current" /\ IsDrip /\ Answered /\ IsSuccess(Reply))
    => LET body     == Reply.body
           initial  == IF "value" \in DOMAIN body THEN body.initialShares
                       ELSE body.quantity
           schedule == AnswerAt(fetches, "dividends", <<>>)
       IN  /\ \A k \in 1..Len(body.dividends) : FGt(body.dividends[k].Amount, FZero)
           /\ \A e \in 1..Len(schedule) :
                 (\E k \in 1..Len(body.dividends) :
                      body.dividends[k].Date = schedule[e].Date)
                 <=> FGt(FMul(initial, schedule[e].Amount), FZero)
           /\ FGt(body.reinvestedShares, FZero) <=> body.dividends # <<>>

(***************************************************************************)
(* C25.  The reinvestment log of a DRIP result is an order-preserving      *)
(* subsequence of the dividend schedule the simulation was given: its      *)
(* entries carry the dates of schedule events, in the schedule's order,    *)
(* each event at most once, and it is never longer than the schedule.      *)
(***************************************************************************)
RECURSIVE IsSubsequenceByDate(_, _)
IsSubsequenceByDate(log, events) ==
    IF log = <<>> THEN TRUE
    ELSE IF events = <<>> THEN FALSE
    ELSE IF log[1].Date = events[1].Date
         THEN IsSubsequenceByDate(Tail(log), Tail(events))
         ELSE IsSubsequenceByDate(log, Tail(events))

C25_LogIsSubsequence ==
    (variant = "current" /\ IsDrip /\ Answered /\ IsSuccess(Reply))
    => LET log      == Reply.body.dividends
           schedule == AnswerAt(fetches, "dividends", <<>>)
       IN  /\ Len(log) <= Len(schedule)
           /\ IsSubsequenceByDate(log, schedule)
           /\ \A k \in 1..(Len(log) - 1) : log[k].Date < log[k + 1].Date

C25_Witness ==
    /\ variant = "current" /\ IsDrip /\ Answered /\ IsSuccess(Reply)
    /\ req.ticker = "AAPL" /\ req.buyDate = 20250315 /\ req.sellDate = 20250615
    /\ req.amount = <<"2", ".", "5">>
    /\ Len(Reply.body.dividends) = 2
    /\ Reply.body.dividends[1].Date = 20250315
    /\ Reply.body.dividends[2].Date = 20250615

(***************************************************************************)
(* C26.  parseAmount's magnitude is the decimal value of the leftmost      *)
(* maximal substring made of an optional sign, digits, an optional decimal *)
(* point, and at least one digit; zero when there is no such substring.  A *)
(* comma is never part of the match: "10,1" parses to 10 while "10.1"      *)
(* parses to 10.1.                                                         *)
(***************************************************************************)
InNumberLanguage(t) ==
    \E sign \in 0..1, whole \in 0..Len(t), point \in 0..1 :
        /\ sign + whole + point < Len(t)
        /\ sign = 1 => t[1] \in {"-", "+"}
        /\ \A k \in (sign + 1)..(sign + whole) : t[k] \in Digits
        /\ point = 1 => t[sign + whole + 1] = "."
        /\ \A k \in (sign + whole + point + 1)..Len(t) : t[k] \in Digits

NumberMatches(s) ==
    {m \in (1..Len(s)) \X (1..Len(s)) :
        m[1] <= m[2] /\ InNumberLanguage(SubSeq(s, m[1], m[2]))}

LeftmostMaximal(s) ==
    LET m == CHOOSE m \in NumberMatches(s) :
                \A n \in NumberMatches(s) :
                    m[1] < n[1] \/ (m[1] = n[1] /\ m[2] >= n[2])
    IN  SubSeq(s, m[1], m[2])

DecimalValue(t) ==
    LET points   == {k \in 1..Len(t) : t[k] = "."}
        decimals == IF points = {} THEN 0 ELSE Len(t) - (CHOOSE k \in points : TRUE)
        scaled   == DigitsVal(SelectSeq(t, LAMBDA c : c \in Digits))
    IN  Norm(IF t[1] = "-" THEN -scaled ELSE scaled, Pow10(decimals))

C26_LeftmostNumber ==
    pc = "parsed" =>
        /\ NumberMatches(req.amount) = {} => FIsZero(loc.parsedAmount)
        /\ NumberMatches(req.amount) # {} =>
              /\ loc.parsedAmount = DecimalValue(LeftmostMaximal(req.amount))
              /\ \A k \in 1..Len(LeftmostMaximal(req.amount)) :
                    LeftmostMaximal(req.amount)[k] # ","
        /\ req.amount = <<"1", "0", ".", "1">> => loc.parsedAmount = <<101, 10>>
        /\ req.amount = <<"1", "0", ",", "1">> => loc.parsedAmount = F(10)

C26_Witness ==
    /\ pc = "parsed" /\ variant = "current"
    /\ req.amount = <<"1", "0", ",", "1">>
    /\ loc.parsedAmount = F(10)

(***************************************************************************)
(* C27.  In parseAmount the numeric scan and the currency scan are         *)
(* independent: a token made of an indicator c, a separator and a number n *)
(* yields the same magnitude and the same currency token as the token made *)
(* of n, the separator and c.                                              *)
(* As claimed: for every separator, empty or made of any characters.       *)
(***************************************************************************)
IsIndicator(c) ==
    \/ Len(c) = 1 /\ c[1] \in CurrencySymbols
    \/ Len(c) = 3 /\ \A k \in 1..3 : c[k] \in UpperLetters

\* the ways to read s as indicator, separator, number
Splits(s) ==
    {d \in (1..Len(s)) \X (1..Len(s)) :
        /\ d[1] <= d[2] /\ d[2] < Len(s)
        /\ IsIndicator(SubSeq(s, 1, d[1]))
        /\ InNumberLanguage(SubSeq(s, d[2] + 1, Len(s)))}

Swapped(s, d) ==
    SubSeq(s, d[2] + 1, Len(s)) \o SubSeq(s, d[1] + 1, d[2]) \o SubSeq(s, 1, d[1])

SameNumberAndCurrency(s, d) ==
    LET other == ParseOf(variant, [req EXCEPT !.amount = Swapped(s, d)])
    IN  /\ loc.parsedAmount = other.parsedAmount
        /\ loc.currency = other.currency

C27_AsClaimed ==
    pc = "parsed" => \A d \in Splits(req.amount) : SameNumberAndCurrency(req.amount, d)

(***************************************************************************)
(* C27 as amended: the two tokens yield the same magnitude, the value of   *)
(* n, and the same currency token, c, when the separator is empty or holds *)
(* no character of the number syntax (sign, digit, decimal point) and none *)
(* of the currency syntax (currency symbol, uppercase letter).  A          *)
(* separator such as "-" or "." is taken into the number on one side only  *)
(* ("$-1" is -1, "1-$" is 1).                                              *)
(***************************************************************************)
NeutralSeparator(sep) ==
    \A k \in 1..Len(sep) :
        sep[k] \notin Digits \cup {"-", "+", "."} \cup UpperLetters \cup CurrencySymbols

C27_ScansIndependent ==
    pc = "parsed" =>
        \A d \in Splits(req.amount) :
            NeutralSeparator(SubSeq(req.amount, d[1] + 1, d[2])) =>
                /\ SameNumberAndCurrency(req.amount, d)
                /\ loc.parsedAmount = DecimalValue(SubSeq(req.amount, d[2] + 1, Len(req.amount)))
                /\ loc.currency = SubSeq(req.amount, 1, d[1])

C27_Witness ==
    /\ pc = "parsed" /\ variant = "current"
    /\ req.amount = <<"$", ",", "1", "0">>
    /\ loc.parsedAmount = F(10) /\ loc.currency = <<"$">>
    /\ parseAmount(<<"1", "0", ",", "$">>).parsedAmount = F(10)
    /\ parseAmount(<<"1", "0", ",", "$">>).currency = <<"$">>

(***************************************************************************)
(* C28.  For the buy-only handler of the current revision the status       *)
(* partitions the outcomes: 400 exactly when the amount is invalid (no     *)
(* number, or zero) or the type is unsupported; 500 exactly when the input *)
(* is valid and some fetch failed; 200 exactly when the input is valid and *)
(* every fetch succeeded.                                                  *)
(***************************************************************************)
InvalidInput ==
    \/ NumberMatches(req.amount) = {}
    \/ FIsZero(DecimalValue(LeftmostMaximal(req.amount)))
    \/ ~ValidType

C29_ExactlyOneResponse ==
    /\ Len(responses) <= 1
    /\ (pc = "done") <=> Answered
    /\ Answered => plan = <<>> /\ ~(IsErrorRecord(Reply) /\ IsSuccess(Reply))
    /\ pc \in {"fxBuy", "fxSell", "buyPrice", "sellPrice", "dividends"} =>
          /\ req.handler \in Handlers
          /\ plan # <<>> /\ plan[Len(plan)] = "respond"
    /\ pc = "respond" => plan = <<>> /\ ~SomeCallFailed
    /\ (Answered /\ IsSuccess(Reply)) => ~SomeCallFailed

C29_Witness ==
    /\ variant = "current" /\ IsDrip /\ pc = "done"
    /\ Len(fetches) = 5 /\ ~SomeCallFailed
    /\ Len(responses) = 1 /\ IsSuccess(Reply)

(***************************************************************************)
(* C30.  In the current revision the asset type only tags the result: the  *)
(* request that differs from a stock or crypto request in its type alone   *)
(* passes the same entry checks, issues the same calls with the same       *)
(* arguments in the same order and, given the same answers, gets the same  *)
(* status and the same fields and values, except for 'type'.               *)
(***************************************************************************)
OtherType(r) ==
    [r EXCEPT !.typeParam = IF r.typeParam = "stock" THEN "crypto" ELSE "stock"]

\* the calls a request makes when none fails: call site, function, arguments
ExpectedCalls(v, r) ==
    LET p     == ParseOf(v, r)
        steps == IF EntryCheck(v, r, p) # <<>> THEN <<>>
                 ELSE SelectSeq(Calls(v, r, p), LAMBDA s : s # "respond")
        CallAt(s) ==
            CASE s = "fxBuy" ->
                     [step |-> s, call |-> FxCall, args |-> <<p.currency, USD, r.buyDate>>]
              [] s = "fxSell" ->
                     [step |-> s, call |-> FxCall, args |-> <<USD, p.currency, r.sellDate>>]
              [] s = "buyPrice" ->
                     [step |-> s, call |-> PriceCall, args |-> <<r.ticker, r.buyDate>>]
              [] s = "sellPrice" ->
                     [step |-> s, call |-> PriceCall, args |-> <<r.ticker, r.sellDate>>]
              [] s = "dividends" ->
                     [step |-> s, call |-> DividendCall,
                      args |-> <<r.ticker, r.buyDate, r.sellDate>>]
    IN  [k \in 1..Len(steps) |-> CallAt(steps[k])]

SameButType(a, b) ==
    /\ a.status = b.status
    /\ DOMAIN a.body = DOMAIN b.body
    /\ \A f \in DOMAIN a.body \ {"type"} : a.body[f] = b.body[f]

====
